---- MODULE Spec2Model ----
(***************************************************************************)
(* Model of package qemu (machine.go): the Machine descriptor, its attach  *)
(* operations, the rendering of the qemu-system-<arch> argument list and   *)
(* the launch sequence of Machine.Start with its background waiter.        *)
(***************************************************************************)
EXTENDS Integers, Sequences, FiniteSets, TLC

(* ------------------------------ bounds --------------------------------- *)
MaxDrives == 2
MaxIfaces == 2
MaxExit == 1

(* --------------------------- input domains ----------------------------- *)
CoresSet == {2, 12}
MemorySet == {1024}
ArchSet == {"x86_64", "arm"}
CdSet == {"/a.iso", "/b.iso"}
DriveSet == {[Path |-> "/vm.qcow2", Format |-> "qcow2"]}
ImageSet == {[Path |-> "/d.img", Format |-> "raw"]}
NetDevSet == {[Type |-> "user", ID |-> "net0", IfName |-> "", MAC |-> "52:54:00:12:34:56"],
              [Type |-> "tap", ID |-> "net1", IfName |-> "tap0", MAC |-> ""]}
VncAddrSet == {"0.0.0.0"}
VncPortSet == {0, 5901}
MonitorSet == {"/m.sock", "/n.sock"}
ExitCodes == 0..MaxExit
SpawnErrSet == {"executable file not found in $PATH"}

(* nil pointer / nil error *)
Nil == "<nil>"

(* ------------------------ number formatting ---------------------------- *)
Digits == <<"0", "1", "2", "3", "4", "5", "6", "7", "8", "9">>

RECURSIVE FormatUint(_)
FormatUint(n) ==
    IF n < 10 THEN Digits[n + 1]
    ELSE FormatUint(n \div 10) \o Digits[(n % 10) + 1]

Itoa(n) == IF n < 0 THEN "-" \o FormatUint(-n) ELSE FormatUint(n)

(* ------------------------------- state --------------------------------- *)
VARIABLES
    Cores, Memory, cd, vnc, monitor, drives, ifaces,  \* Machine fields
    fpc,        \* position of the caller inside Start
    arch, kvm,  \* parameters of the Start call
    args,       \* argument list handed to exec.Command
    procState,  \* the child process: "none", "running", "exited"
    exitCode,   \* exit status of the child once it exited
    exitAt,     \* when the child exited: "none", "grace", "late"
    errc,       \* the completion channel: "none" (not made) or "open"
    wpc,        \* position of the background goroutine
    sendVal,    \* value the goroutine is sending on errc
    vmerr,      \* value received by the select
    retProc, retErr, \* values returned by Start
    sleeps, selects, sends, delivered \* counts of the operations performed

desc == <<Cores, Memory, cd, vnc, monitor, drives, ifaces>>
launch == <<fpc, arch, kvm, args, procState, exitCode, exitAt, errc, wpc,
            sendVal, vmerr, retProc, retErr, sleeps, selects, sends, delivered>>
vars == <<desc, launch>>

(* the receiver of the methods, as a value *)
m == [Cores |-> Cores, Memory |-> Memory, cd |-> cd, vnc |-> vnc,
      monitor |-> monitor, drives |-> drives, ifaces |-> ifaces]

(* ------------------------------ rendering ------------------------------ *)
(* args := []string{"-smp", Itoa(m.Cores), "-m", FormatUint(m.Memory, 10)} *)
ArgsSizing(mm) == <<"-smp", Itoa(mm.Cores), "-m", FormatUint(mm.Memory)>>

(* if kvm { append "-enable-kvm" } *)
ArgsKvm(a, k) == IF k THEN Append(a, "-enable-kvm") ELSE a

(* if len(m.cd) > 0 { append "-cdrom", m.cd } *)
ArgsCD(a, mm) ==
    IF Len(mm.cd) > 0 THEN Append(Append(a, "-cdrom"), mm.cd) ELSE a

(* fmt.Sprintf("file=%s,format=%s", drive.Path, drive.Format) *)
DriveArg(drive) == "file=" \o drive.Path \o ",format=" \o drive.Format

(* for _, drive := range m.drives { append "-drive", DriveArg } *)
RECURSIVE ArgsDrives(_, _)
ArgsDrives(a, ds) ==
    IF ds = <<>> THEN a
    ELSE ArgsDrives(Append(Append(a, "-drive"), DriveArg(Head(ds))), Tail(ds))

(* variant: no networking directive for an empty interface list *)
ArgsNoNet_Silent(a, mm) == a

(* if len(m.ifaces) == 0 { append "-net", "none" } *)
ArgsNoNet(a, mm) ==
    IF Len(mm.ifaces) = 0 THEN Append(Append(a, "-net"), "none") ELSE a

(* s := "%s,id=%s"; if len(iface.IfName) > 0 { s = "%s,ifname=%s" } *)
NetdevArg(iface) ==
    LET s == iface.Type \o ",id=" \o iface.ID
    IN  IF Len(iface.IfName) > 0 THEN s \o ",ifname=" \o iface.IfName ELSE s

(* variant: the mac suffix is tested on the interface name *)
DeviceArg_TestsIfName(iface) ==
    LET s == "virtio-net,netdev=" \o iface.ID
    IN  IF Len(iface.IfName) > 0 THEN s \o ",mac=" \o iface.MAC ELSE s

(* s = "virtio-net,netdev=%s"; if len(iface.MAC) > 0 { s = "%s,mac=%s" } *)
DeviceArg(iface) ==
    LET s == "virtio-net,netdev=" \o iface.ID
    IN  IF Len(iface.MAC) > 0 THEN s \o ",mac=" \o iface.MAC ELSE s

(* for _, iface := range m.ifaces { append "-netdev", .., "-device", .. } *)
RECURSIVE ArgsIfaces(_, _)
ArgsIfaces(a, is) ==
    IF is = <<>> THEN a
    ELSE ArgsIfaces(Append(Append(Append(Append(a, "-netdev"),
                                         NetdevArg(Head(is))),
                                  "-device"),
                           DeviceArg(Head(is))),
                    Tail(is))

(* if len(m.vnc) > 0 { append "-vnc", m.vnc } *)
ArgsVNC(a, mm) ==
    IF Len(mm.vnc) > 0 THEN Append(Append(a, "-vnc"), mm.vnc) ELSE a

(* if len(m.monitor) > 0 { append "-qmp", "unix:%s,server,nowait" } *)
ArgsMonitor(a, mm) ==
    IF Len(mm.monitor) > 0
    THEN Append(Append(a, "-qmp"), "unix:" \o mm.monitor \o ",server,nowait")
    ELSE a

(* variant: the drives are emitted before the CD-ROM *)
Render_DrivesFirst(mm, k) ==
    LET a1 == ArgsSizing(mm)
        a2 == ArgsKvm(a1, k)
        a3 == ArgsDrives(a2, mm.drives)
        a4 == ArgsCD(a3, mm)
        a5 == ArgsNoNet(a4, mm)
        a6 == ArgsIfaces(a5, mm.ifaces)
        a7 == ArgsVNC(a6, mm)
        a8 == ArgsMonitor(a7, mm)
    IN  a8

(* the statements of Start that build args, in program order *)
Render(mm, k) ==
    LET a1 == ArgsSizing(mm)
        a2 == ArgsKvm(a1, k)
        a3 == ArgsCD(a2, mm)
        a4 == ArgsDrives(a3, mm.drives)
        a5 == ArgsNoNet(a4, mm)
        a6 == ArgsIfaces(a5, mm.ifaces)
        a7 == ArgsVNC(a6, mm)
        a8 == ArgsMonitor(a7, mm)
    IN  a8

(* qemu := fmt.Sprintf("qemu-system-%s", arch) *)
Qemu(a) == "qemu-system-" \o a

(* ------------------------- construction -------------------------------- *)
(* NewMachine(cores, memory); no Start call has been made yet *)
Init ==
    /\ Cores \in CoresSet
    /\ Memory \in MemorySet
    /\ cd = ""
    /\ vnc = ""
    /\ monitor = ""
    /\ drives = <<>>
    /\ ifaces = <<>>
    /\ fpc = "idle"
    /\ arch = ""
    /\ kvm = FALSE
    /\ args = <<>>
    /\ procState = "none"
    /\ exitCode = 0
    /\ exitAt = "none"
    /\ errc = "none"
    /\ wpc = "none"
    /\ sendVal = Nil
    /\ vmerr = Nil
    /\ retProc = Nil
    /\ retErr = Nil
    /\ sleeps = 0
    /\ selects = 0
    /\ sends = 0
    /\ delivered = 0

(* ------------------------- attach operations --------------------------- *)
(* variant: a CD-ROM that is already set is kept *)
AddCDRom_KeepFirst(dev) ==
    /\ fpc = "idle"
    /\ cd' = IF cd = "" THEN dev ELSE cd
    /\ UNCHANGED <<Cores, Memory, vnc, monitor, drives, ifaces, launch>>

(* the caller attaches resources before handing the machine to Start *)
AddCDRom(dev) ==
    /\ fpc = "idle"
    /\ cd' = dev
    /\ UNCHANGED <<Cores, Memory, vnc, monitor, drives, ifaces, launch>>

(* variant: the new drive is put in front of the others *)
AddDrive_Prepend(d) ==
    /\ fpc = "idle"
    /\ Len(drives) < MaxDrives
    /\ drives' = <<d>> \o drives
    /\ UNCHANGED <<Cores, Memory, cd, vnc, monitor, ifaces, launch>>

AddDrive(d) ==
    /\ fpc = "idle"
    /\ Len(drives) < MaxDrives
    /\ drives' = Append(drives, d)
    /\ UNCHANGED <<Cores, Memory, cd, vnc, monitor, ifaces, launch>>

AddDriveImage(img) ==
    /\ fpc = "idle"
    /\ Len(drives) < MaxDrives
    /\ drives' = Append(drives, [Path |-> img.Path, Format |-> img.Format])
    /\ UNCHANGED <<Cores, Memory, cd, vnc, monitor, ifaces, launch>>

(* variant: the interface list is assigned instead of appended to *)
AddNetworkDevice_Assign(netdev) ==
    /\ fpc = "idle"
    /\ Len(ifaces) < MaxIfaces
    /\ ifaces' = <<netdev>>
    /\ UNCHANGED <<Cores, Memory, cd, vnc, monitor, drives, launch>>

AddNetworkDevice(netdev) ==
    /\ fpc = "idle"
    /\ Len(ifaces) < MaxIfaces
    /\ ifaces' = Append(ifaces, netdev)
    /\ UNCHANGED <<Cores, Memory, cd, vnc, monitor, drives, launch>>

AddVNC(addr, port) ==
    /\ fpc = "idle"
    /\ vnc' = addr \o ":" \o Itoa(port)
    /\ UNCHANGED <<Cores, Memory, cd, monitor, drives, ifaces, launch>>

(* variant: the socket path is stored in the vnc field *)
AddMonitorUnix_WrongField(dev) ==
    /\ fpc = "idle"
    /\ vnc' = dev
    /\ UNCHANGED <<Cores, Memory, cd, monitor, drives, ifaces, launch>>

AddMonitorUnix(dev) ==
    /\ fpc = "idle"
    /\ monitor' = dev
    /\ UNCHANGED <<Cores, Memory, cd, vnc, drives, ifaces, launch>>

(* ------------------------------ launch --------------------------------- *)
(* proc := cmd.Process, the handle of the spawned child *)
Proc == "cmd.Process"

(* variant: every exit status counts as an error *)
WaitErr_AlwaysErr(code) == "exit status " \o Itoa(code)

(* err := cmd.Wait(): nil on exit status 0, an ExitError otherwise *)
WaitErr(code) == IF code = 0 THEN Nil ELSE "exit status " \o Itoa(code)

(* variant: the message names the binary without the architecture *)
Errorf_NoArch(a, err) == "'qemu-system': " \o err

(* fmt.Errorf("'qemu-system-%s': %s", arch, err) *)
Errorf(a, err) == "'qemu-system-" \o a \o "': " \o err

(* variant: errc and the goroutine are set up before err is looked at *)
StartSpawnFail_SetupFirst(a, k, e) ==
    /\ fpc = "idle"
    /\ arch' = a
    /\ kvm' = k
    /\ args' = Render(m, k)
    /\ errc' = "open"
    /\ wpc' = "wait"
    /\ retProc' = Nil
    /\ retErr' = e
    /\ fpc' = "done"
    /\ UNCHANGED <<desc, procState, exitCode, exitAt, sendVal,
                   vmerr, sleeps, selects, sends, delivered>>

(* Start up to a failing cmd.Start(): return nil, err *)
StartSpawnFail(a, k, e) ==
    /\ fpc = "idle"
    /\ arch' = a
    /\ kvm' = k
    /\ args' = Render(m, k)
    /\ retProc' = Nil
    /\ retErr' = e
    /\ fpc' = "done"
    /\ UNCHANGED <<desc, procState, exitCode, exitAt, errc, wpc, sendVal,
                   vmerr, sleeps, selects, sends, delivered>>

(* variant: Start clears the CD-ROM once it has rendered it *)
StartSpawn_ConsumesCD(a, k) ==
    /\ fpc = "idle"
    /\ arch' = a
    /\ kvm' = k
    /\ args' = Render(m, k)
    /\ cd' = ""
    /\ procState' = "running"
    /\ errc' = "open"
    /\ wpc' = "wait"
    /\ fpc' = "sleep"
    /\ UNCHANGED <<Cores, Memory, vnc, monitor, drives, ifaces, exitCode,
                   exitAt, sendVal, vmerr, retProc, retErr,
                   sleeps, selects, sends, delivered>>

(* Start up to the go statement: the child runs, errc is made, the
   goroutine is in cmd.Wait() and the caller is about to sleep *)
StartSpawn(a, k) ==
    /\ fpc = "idle"
    /\ arch' = a
    /\ kvm' = k
    /\ args' = Render(m, k)
    /\ procState' = "running"
    /\ errc' = "open"
    /\ wpc' = "wait"
    /\ fpc' = "sleep"
    /\ UNCHANGED <<desc, exitCode, exitAt, sendVal, vmerr, retProc, retErr,
                   sleeps, selects, sends, delivered>>

(* the child terminates, at a time of its own choosing *)
ProcExit(code) ==
    /\ procState = "running"
    /\ procState' = "exited"
    /\ exitCode' = code
    /\ exitAt' = fpc
    /\ UNCHANGED <<desc, fpc, arch, kvm, args, errc, wpc, sendVal, vmerr,
                   retProc, retErr, sleeps, selects, sends, delivered>>

(* variant: the goroutine sends the result of cmd.Wait() even when nil *)
WaitReturn_SendAlways ==
    /\ wpc = "wait"
    /\ procState = "exited"
    /\ wpc' = "send"
    /\ sendVal' = IF WaitErr(exitCode) # Nil
                  THEN Errorf(arch, WaitErr(exitCode)) ELSE Nil
    /\ sends' = sends + 1
    /\ UNCHANGED <<desc, fpc, arch, kvm, args, procState, exitCode, exitAt,
                   errc, vmerr, retProc, retErr, sleeps, selects, delivered>>

(* variant: the goroutine does not wait for the child before reporting *)
WaitReturn_NoWait ==
    /\ wpc = "wait"
    /\ wpc' = "send"
    /\ sendVal' = Errorf(arch, "exec: not started")
    /\ sends' = sends + 1
    /\ UNCHANGED <<desc, fpc, arch, kvm, args, procState, exitCode, exitAt,
                   errc, vmerr, retProc, retErr, sleeps, selects, delivered>>

(* the goroutine: cmd.Wait() returns; on an error it starts the send on
   the unbuffered errc and blocks there, otherwise it ends *)
WaitReturn ==
    /\ wpc = "wait"
    /\ procState = "exited"
    /\ LET err == WaitErr(exitCode)
       IN  IF err # Nil
           THEN /\ wpc' = "send"
                /\ sendVal' = Errorf(arch, err)
                /\ sends' = sends + 1
           ELSE /\ wpc' = "done"
                /\ UNCHANGED <<sendVal, sends>>
    /\ UNCHANGED <<desc, fpc, arch, kvm, args, procState, exitCode, exitAt,
                   errc, vmerr, retProc, retErr, sleeps, selects, delivered>>

(* time.Sleep(50 * time.Millisecond) returns *)
SleepElapsed ==
    /\ fpc = "sleep"
    /\ fpc' = "select"
    /\ sleeps' = sleeps + 1
    /\ UNCHANGED <<desc, arch, kvm, args, procState, exitCode, exitAt, errc,
                   wpc, sendVal, vmerr, retProc, retErr, selects, sends,
                   delivered>>

(* variant: the received error is dropped and the handle returned *)
SelectRecv_DropErr ==
    /\ fpc = "select"
    /\ wpc = "send"
    /\ vmerr' = sendVal
    /\ delivered' = delivered + 1
    /\ wpc' = "done"
    /\ retProc' = Proc /\ retErr' = Nil
    /\ selects' = selects + 1
    /\ fpc' = "done"
    /\ UNCHANGED <<desc, arch, kvm, args, procState, exitCode, exitAt, errc,
                   sendVal, sleeps, sends>>

(* variant: the handle is returned together with the error *)
SelectRecv_Both ==
    /\ fpc = "select"
    /\ wpc = "send"
    /\ vmerr' = sendVal
    /\ delivered' = delivered + 1
    /\ wpc' = "done"
    /\ retProc' = Proc /\ retErr' = sendVal
    /\ selects' = selects + 1
    /\ fpc' = "done"
    /\ UNCHANGED <<desc, arch, kvm, args, procState, exitCode, exitAt, errc,
                   sendVal, sleeps, sends>>

(* select, case vmerr = <-errc: a sender is blocked on errc; the value is
   handed over, the goroutine returns, Start returns nil, vmerr (or, for
   a nil value, falls through to return proc, nil) *)
SelectRecv ==
    /\ fpc = "select"
    /\ wpc = "send"
    /\ vmerr' = sendVal
    /\ delivered' = delivered + 1
    /\ wpc' = "done"
    /\ IF sendVal # Nil
       THEN retProc' = Nil /\ retErr' = sendVal
       ELSE retProc' = Proc /\ retErr' = Nil
    /\ selects' = selects + 1
    /\ fpc' = "done"
    /\ UNCHANGED <<desc, arch, kvm, args, procState, exitCode, exitAt, errc,
                   sendVal, sleeps, sends>>

(* variant: a select without a default branch *)
SelectDefault_Blocking ==
    /\ fpc = "select"
    /\ wpc # "send"
    /\ FALSE
    /\ UNCHANGED vars

(* variant: the default branch returns no handle *)
SelectDefault_NoHandle ==
    /\ fpc = "select"
    /\ wpc # "send"
    /\ retProc' = Nil
    /\ retErr' = Nil
    /\ selects' = selects + 1
    /\ fpc' = "done"
    /\ UNCHANGED <<desc, arch, kvm, args, procState, exitCode, exitAt, errc,
                   wpc, sendVal, vmerr, sleeps, sends, delivered>>

(* select, default: no sender is ready on errc; return proc, nil *)
SelectDefault ==
    /\ fpc = "select"
    /\ wpc # "send"
    /\ retProc' = Proc
    /\ retErr' = Nil
    /\ selects' = selects + 1
    /\ fpc' = "done"
    /\ UNCHANGED <<desc, arch, kvm, args, procState, exitCode, exitAt, errc,
                   wpc, sendVal, vmerr, sleeps, sends, delivered>>

Next ==
    \/ \E dev \in CdSet : AddCDRom(dev)
    \/ \E d \in DriveSet : AddDrive(d)
    \/ \E img \in ImageSet : AddDriveImage(img)
    \/ \E netdev \in NetDevSet : AddNetworkDevice(netdev)
    \/ \E addr \in VncAddrSet, port \in VncPortSet : AddVNC(addr, port)
    \/ \E dev \in MonitorSet : AddMonitorUnix(dev)
    \/ \E a \in ArchSet, k \in BOOLEAN, e \in SpawnErrSet : StartSpawnFail(a, k, e)
    \/ \E a \in ArchSet, k \in BOOLEAN : StartSpawn(a, k)
    \/ \E code \in ExitCodes : ProcExit(code)
    \/ WaitReturn
    \/ SleepElapsed
    \/ SelectRecv
    \/ SelectDefault

Spec == Init /\ [][Next]_vars

(* the Go scheduler runs every runnable goroutine, and the timer fires;
   nothing obliges the child process to exit *)
FairSpec ==
    Spec /\ WF_vars(WaitReturn) /\ WF_vars(SleepElapsed)
         /\ WF_vars(SelectRecv) /\ WF_vars(SelectDefault)

TypeOK ==
    /\ fpc \in {"idle", "sleep", "select", "done"}
    /\ wpc \in {"none", "wait", "send", "done"}
    /\ procState \in {"none", "running", "exited"}
    /\ errc \in {"none", "open"}

(* ============================ properties =============================== *)
(* Start was entered and the spawn succeeded *)
Spawned == procState # "none"

(* Start has returned after a successful spawn *)
Returned == fpc = "done" /\ Spawned

(* C1, as stated: whenever the child exited with a non-zero status while
   the caller was still in its grace sleep, Start returns no handle and
   an error, after one full sleep, in every interleaving. *)
C1_EveryInterleaving ==
    (Returned /\ exitAt = "sleep" /\ exitCode # 0)
        => (retProc = Nil /\ retErr # Nil /\ sleeps = 1)

(* C1, amended: for a child that exited with a non-zero status during the
   grace sleep, the select returns no handle and an error, after one full
   sleep, when the goroutine is already blocked in its send on errc; when
   the goroutine has not reached the send yet, the select returns the
   handle and a nil error. *)
C1_EarlyExitReported ==
    [][(fpc = "select" /\ fpc' = "done" /\ exitAt = "sleep" /\ exitCode # 0)
         => /\ wpc = "send" => (retProc' = Nil /\ retErr' # Nil /\ sleeps' = 1)
            /\ wpc # "send" => (retProc' = Proc /\ retErr' = Nil /\ sleeps' = 1)
      ]_vars

C1_Witness ==
    /\ Returned /\ exitAt = "sleep" /\ exitCode # 0
    /\ delivered = 1 /\ retProc = Nil /\ retErr # Nil /\ sleeps = 1

(* C2: if the child has not exited when the select runs (it never exits,
   or exits after Start returned, with any status), Start returns the
   handle and a nil error, and no value of errc ever reaches the caller. *)
C2_LateExitNotSurfaced ==
    (Returned /\ exitAt \in {"none", "done"})
        => /\ retProc = Proc /\ retErr = Nil
           /\ vmerr = Nil /\ delivered = 0

C2_Witness ==
    /\ Returned /\ exitAt = "done" /\ exitCode # 0 /\ wpc = "send"
    /\ retProc = Proc /\ retErr = Nil

(* C3: every return of Start is either (handle, nil) or (nil, error). *)
C3_ExactlyOneOutcome ==
    fpc = "done" =>
        \/ retProc # Nil /\ retErr = Nil
        \/ retProc = Nil /\ retErr # Nil

C3_Witness ==
    /\ fpc = "done" /\ procState = "exited" /\ exitCode = 0
    /\ retProc = Proc /\ retErr = Nil

(* C4: errc gets at most one value, and only once the child has exited;
   the select takes that one value or finds nothing, never a second one. *)
C4_AtMostOneValueAfterExit ==
    /\ sends <= 1
    /\ delivered <= sends
    /\ (sends > 0 \/ wpc = "send") => procState = "exited"
    /\ Returned =>
          \/ delivered = 0 /\ vmerr = Nil
          \/ delivered = 1 /\ vmerr = sendVal /\ vmerr # Nil /\ wpc = "done"

C4_Witness ==
    Returned /\ delivered = 1 /\ sends = 1 /\ vmerr = sendVal /\ vmerr # Nil

(* C5, as stated: once the goroutine was started, whenever the child has
   terminated the goroutine eventually terminates too. *)
C5_WaiterTerminates ==
    (Spawned /\ procState = "exited") ~> (wpc = "done")

(* C6, as stated: when a launch is over (Start returned, child exited,
   goroutine past cmd.Wait()), errc was written exactly once and read at
   most once. *)
C6_WrittenExactlyOnce ==
    (Returned /\ procState = "exited" /\ wpc \in {"send", "done"})
        => (sends = 1 /\ delivered <= 1)

(* C6, amended: the goroutine starts exactly one send on errc when the
   child exited with a non-zero status and none when it exited cleanly
   (never more than one), and the caller receives from errc at most
   once, a send completing only through that receive. *)
C6_WrittenAtMostOnce ==
    Spawned =>
        /\ sends <= 1
        /\ delivered <= 1
        /\ delivered <= sends
        /\ (wpc \in {"send", "done"} /\ exitCode # 0) => sends = 1
        /\ (wpc \in {"send", "done"} /\ exitCode = 0) => sends = 0

C6_Witness ==
    /\ Returned /\ procState = "exited" /\ exitCode = 0
    /\ wpc = "done" /\ sends = 0 /\ selects = 1

(* C7: a failing spawn makes Start return nil and the spawn error at
   once: no goroutine, no channel, no sleep, no select. *)
C7_SpawnFailureImmediate ==
    (fpc = "done" /\ ~Spawned)
        => /\ retProc = Nil
           /\ retErr \in SpawnErrSet
           /\ wpc = "none" /\ errc = "none"
           /\ sleeps = 0 /\ selects = 0 /\ sends = 0

C7_Witness ==
    /\ fpc = "done" /\ procState = "none"
    /\ retProc = Nil /\ retErr \in SpawnErrSet /\ errc = "none"

(* C8: after a successful spawn the caller sleeps exactly once, then makes
   exactly one select on errc, which never blocks; so Start returns,
   whatever the child and the goroutine do. *)
C8_SleepThenOneSelect ==
    /\ [](/\ fpc = "sleep" => (sleeps = 0 /\ selects = 0)
          /\ fpc = "select" => (sleeps = 1 /\ selects = 0)
          /\ Returned => (sleeps = 1 /\ selects = 1))
    /\ (fpc = "sleep") ~> (fpc = "done")

C8_Witness ==
    Returned /\ sleeps = 1 /\ selects = 1 /\ procState = "running"

(* C9: an early-exit failure returns, without a handle, the error of
   cmd.Wait() prefixed with 'qemu-system-<arch>' for the arch of this
   Start call, e.g. 'qemu-system-arm': exit status 1. *)
C9_ErrorNamesArch ==
    (Returned /\ retErr # Nil) =>
        /\ retProc = Nil
        /\ exitCode # 0
        /\ retErr = "'" \o Qemu(arch) \o "': " \o WaitErr(exitCode)
        /\ (arch = "arm" /\ exitCode = 1)
               => retErr = "'qemu-system-arm': exit status 1"
        /\ (arch = "x86_64" /\ exitCode = 1)
               => retErr = "'qemu-system-x86_64': exit status 1"

C9_Witness ==
    /\ Returned /\ arch = "arm" /\ exitCode = 1
    /\ retErr = "'qemu-system-arm': exit status 1" /\ retProc = Nil

(* the sections of the argument list, each given by position *)
SecSizing == <<"-smp", Itoa(Cores), "-m", FormatUint(Memory)>>
SecKvm == IF kvm THEN <<"-enable-kvm">> ELSE <<>>
SecCD == IF cd # "" THEN <<"-cdrom", cd>> ELSE <<>>
SecDrives ==
    [i \in 1..(2 * Len(drives)) |->
        IF i % 2 = 1 THEN "-drive"
        ELSE "file=" \o drives[i \div 2].Path
                 \o ",format=" \o drives[i \div 2].Format]
SecNet ==
    IF Len(ifaces) = 0 THEN <<"-net", "none">>
    ELSE [i \in 1..(4 * Len(ifaces)) |->
            LET iface == ifaces[((i - 1) \div 4) + 1]
            IN  CASE i % 4 = 1 -> "-netdev"
                  [] i % 4 = 2 -> NetdevArg(iface)
                  [] i % 4 = 3 -> "-device"
                  [] OTHER -> DeviceArg(iface)]
SecVNC == IF vnc # "" THEN <<"-vnc", vnc>> ELSE <<>>
SecMonitor ==
    IF monitor # "" THEN <<"-qmp", "unix:" \o monitor \o ",server,nowait">>
    ELSE <<>>

(* the descriptor of the scenario: 2 cores, 1024 MB, one qcow2 drive *)
ScenarioDescriptor ==
    /\ Cores = 2 /\ Memory = 1024
    /\ drives = <<[Path |-> "/vm.qcow2", Format |-> "qcow2"]>>
    /\ ifaces = <<>> /\ cd = "" /\ vnc = "" /\ monitor = ""

(* C10: for every descriptor built by attach operations and either kvm
   flag, the rendered list is sizing, kvm, cdrom, drives in insertion
   order, network section, vnc, qmp, in this order; the scenario
   descriptor renders to -smp 2 -m 1024 -drive
   file=/vm.qcow2,format=qcow2 -net none. *)
C10_RenderOrder ==
    fpc # "idle" =>
        /\ args = SecSizing \o SecKvm \o SecCD \o SecDrives \o SecNet
                    \o SecVNC \o SecMonitor
        /\ (ScenarioDescriptor /\ ~kvm)
               => args = <<"-smp", "2", "-m", "1024", "-drive",
                           "file=/vm.qcow2,format=qcow2", "-net", "none">>
        /\ Cores = 12 => args[2] = "12"

C10_Witness ==
    /\ fpc # "idle" /\ kvm /\ Cores = 12
    /\ cd = "/b.iso" /\ Len(drives) = 2 /\ drives[1] # drives[2]
    /\ Len(ifaces) = 2 /\ vnc = "0.0.0.0:5901" /\ monitor = "/n.sock"
    /\ Len(args) = 4 + 1 + 2 + 4 + 8 + 2 + 2

(* number of positions of the list a holding the flag f *)
FlagCount(a, f) == Cardinality({i \in 1..Len(a) : a[i] = f})

(* number of places of the list a where flag f is followed by value v *)
PairCount(a, f, v) ==
    Cardinality({i \in 1..(Len(a) - 1) : a[i] = f /\ a[i + 1] = v})

(* C11: a descriptor without network interfaces renders exactly one
   -net none pair and no -netdev and no -device flag. *)
C11_NoIfacesNetNone ==
    (fpc # "idle" /\ ifaces = <<>>) =>
        /\ PairCount(args, "-net", "none") = 1
        /\ FlagCount(args, "-net") = 1
        /\ FlagCount(args, "-netdev") = 0
        /\ FlagCount(args, "-device") = 0

C11_Witness ==
    /\ fpc # "idle" /\ ifaces = <<>> /\ Len(drives) = 2 /\ vnc # ""
    /\ PairCount(args, "-net", "none") = 1

(* index of the last element of args before the network section *)
NetBase ==
    4 + (IF kvm THEN 1 ELSE 0) + (IF cd # "" THEN 2 ELSE 0)
      + 2 * Len(drives)

(* C12: with at least one interface there is no -net none, and the j-th
   interface gives -netdev <type>,id=<id>[,ifname=<name>] directly
   followed by -device virtio-net,netdev=<id>[,mac=<addr>], the suffixes
   being there exactly when the field is set; no other -netdev or -device
   flag exists. *)
C12_IfacePairs ==
    (fpc # "idle" /\ ifaces # <<>>) =>
        /\ FlagCount(args, "-net") = 0
        /\ FlagCount(args, "none") = 0
        /\ FlagCount(args, "-netdev") = Len(ifaces)
        /\ FlagCount(args, "-device") = Len(ifaces)
        /\ \A j \in 1..Len(ifaces) :
              LET iface == ifaces[j]
                  p == NetBase + 4 * (j - 1)
              IN  /\ args[p + 1] = "-netdev"
                  /\ args[p + 2] =
                        IF iface.IfName # ""
                        THEN iface.Type \o ",id=" \o iface.ID
                                 \o ",ifname=" \o iface.IfName
                        ELSE iface.Type \o ",id=" \o iface.ID
                  /\ args[p + 3] = "-device"
                  /\ args[p + 4] =
                        IF iface.MAC # ""
                        THEN "virtio-net,netdev=" \o iface.ID
                                 \o ",mac=" \o iface.MAC
                        ELSE "virtio-net,netdev=" \o iface.ID
                  /\ (iface.ID = "net0") =>
                        /\ args[p + 2] = "user,id=net0"
                        /\ args[p + 4] =
                             "virtio-net,netdev=net0,mac=52:54:00:12:34:56"
                  /\ (iface.ID = "net1") =>
                        /\ args[p + 2] = "tap,id=net1,ifname=tap0"
                        /\ args[p + 4] = "virtio-net,netdev=net1"

C12_Witness ==
    /\ fpc # "idle" /\ Len(ifaces) = 2 /\ ifaces[1] # ifaces[2]
    /\ kvm /\ cd # "" /\ drives # <<>>
    /\ FlagCount(args, "-netdev") = 2 /\ FlagCount(args, "-net") = 0

(* the values that follow the flag f in the list a, in order *)
RECURSIVE FlagValues(_, _)
FlagValues(a, f) ==
    IF Len(a) < 2 THEN <<>>
    ELSE IF a[1] = f
         THEN <<a[2]>> \o FlagValues(SubSeq(a, 3, Len(a)), f)
         ELSE FlagValues(Tail(a), f)

(* the receiver of the methods as it is after a step *)
mNext == [Cores |-> Cores', Memory |-> Memory', cd |-> cd', vnc |-> vnc',
          monitor |-> monitor', drives |-> drives', ifaces |-> ifaces']

(* the -drive values the descriptor renders to, before and after a step *)
DriveValues(k) == FlagValues(Render(m, k), "-drive")
DriveValuesNext(k) == FlagValues(Render(mNext, k), "-drive")

(* C13: the -drive pairs follow the order of attachment, one pair per
   drive: AddDrive and AddDriveImage each put the pair of the new drive
   behind the pairs rendered so far, every other attach operation leaves
   the -drive pairs as they are, and the list handed to the process has
   the pairs of the drives in that order. *)
C13_DriveOrder ==
    [][/\ (fpc = "idle" /\ fpc' # "idle") =>
            /\ FlagCount(args', "-drive") = Len(drives')
            /\ FlagValues(args', "-drive") =
                  [i \in 1..Len(drives') |->
                      "file=" \o drives'[i].Path
                          \o ",format=" \o drives'[i].Format]
       /\ (fpc = "idle" /\ fpc' = "idle") =>
            \A k \in BOOLEAN :
               /\ \A d \in DriveSet : AddDrive(d) =>
                     /\ DriveValuesNext(k) =
                           Append(DriveValues(k),
                                  "file=" \o d.Path \o ",format=" \o d.Format)
                     /\ DriveValuesNext(k)[Len(drives')] =
                           "file=/vm.qcow2,format=qcow2"
               /\ \A img \in ImageSet : AddDriveImage(img) =>
                     /\ DriveValuesNext(k) =
                           Append(DriveValues(k),
                                  "file=" \o img.Path
                                      \o ",format=" \o img.Format)
                     /\ DriveValuesNext(k)[Len(drives')] =
                           "file=/d.img,format=raw"
               /\ Len(drives') = Len(drives)
                     => DriveValuesNext(k) = DriveValues(k)
      ]_vars

C13_Witness ==
    /\ fpc # "idle" /\ cd # "" /\ ifaces # <<>>
    /\ drives = <<[Path |-> "/d.img", Format |-> "raw"],
                  [Path |-> "/vm.qcow2", Format |-> "qcow2"]>>
    /\ FlagValues(args, "-drive") =
          <<"file=/d.img,format=raw", "file=/vm.qcow2,format=qcow2">>

(* the values of flag f in the rendering of the receiver after a step *)
ValuesNext(k, f) == FlagValues(Render(mNext, k), f)

(* C14: setting the CD-ROM, the VNC endpoint or the monitor socket again
   replaces the earlier value: whatever was set before, a call goes
   through and the rendering after it has the flag exactly once, with the
   value of that call. *)
C14_LastWriteWins ==
    fpc = "idle" =>
        /\ \A dev \in CdSet :
              ENABLED (AddCDRom(dev)
                         /\ \A k \in BOOLEAN :
                               ValuesNext(k, "-cdrom") = <<dev>>)
        /\ ENABLED (AddVNC("0.0.0.0", 0)
                      /\ \A k \in BOOLEAN :
                            ValuesNext(k, "-vnc") = <<"0.0.0.0:0">>)
        /\ ENABLED (AddVNC("0.0.0.0", 5901)
                      /\ \A k \in BOOLEAN :
                            ValuesNext(k, "-vnc") = <<"0.0.0.0:5901">>)
        /\ \A dev \in MonitorSet :
              ENABLED (AddMonitorUnix(dev)
                         /\ \A k \in BOOLEAN :
                               ValuesNext(k, "-qmp") =
                                  <<"unix:" \o dev \o ",server,nowait">>)
        /\ \A k \in BOOLEAN :
              /\ FlagCount(Render(m, k), "-cdrom") <= 1
              /\ FlagCount(Render(m, k), "-vnc") <= 1
              /\ FlagCount(Render(m, k), "-qmp") <= 1

C14_Witness ==
    /\ fpc # "idle" /\ cd = "/b.iso" /\ vnc = "0.0.0.0:0"
    /\ monitor = "/n.sock"
    /\ FlagValues(args, "-cdrom") = <<"/b.iso">>
    /\ FlagValues(args, "-vnc") = <<"0.0.0.0:0">>
    /\ FlagValues(args, "-qmp") = <<"unix:/n.sock,server,nowait">>

(* the sequence s is an initial part of the sequence t *)
IsPrefix(s, t) == Len(s) <= Len(t) /\ SubSeq(t, 1, Len(s)) = s

(* C15: drives and ifaces are append-only: across every step of every
   operation the old sequence is a prefix of the new one, and it grows by
   at most the one element attached. *)
C15_AppendOnly ==
    [][/\ IsPrefix(drives, drives')
       /\ IsPrefix(ifaces, ifaces')
       /\ Len(drives') <= Len(drives) + 1
       /\ Len(ifaces') <= Len(ifaces) + 1
       /\ \A netdev \in NetDevSet : AddNetworkDevice(netdev) =>
             ifaces' = ifaces \o <<netdev>>
      ]_vars

C15_Witness ==
    /\ Len(drives) = 2 /\ Len(ifaces) = 2
    /\ drives[1] # drives[2] /\ ifaces[1] # ifaces[2]

(* C16: rendering is pure and repeatable: no step of Start changes a
   field of the descriptor, the list built by the call stays as built,
   and rendering the descriptor again with the same kvm flag, at any
   point during or after the launch, gives that same list. *)
C16_RenderPure ==
    [][fpc' # "idle" =>
          /\ desc' = desc
          /\ fpc # "idle" => (args' = args /\ kvm' = kvm /\ arch' = arch)
          /\ args' = Render(mNext, kvm')
      ]_vars

C16_Witness ==
    /\ fpc = "done" /\ procState = "exited"
    /\ cd # "" /\ drives # <<>> /\ ifaces # <<>> /\ monitor # ""
    /\ args = Render(m, kvm)

(* the fields of the descriptor whose value differs after the step *)
ChangedFields ==
    {f \in {"Cores", "Memory", "cd", "vnc", "monitor", "drives", "ifaces"} :
        m[f] # mNext[f]}

(* C17: Cores and Memory keep the values given to NewMachine through
   every attach operation and every step of Start, and each attach
   operation changes no field but its own: AddCDRom only cd, AddDrive and
   AddDriveImage only drives, AddNetworkDevice only ifaces, AddVNC only
   vnc, AddMonitorUnix only monitor. *)
C17_Frame ==
    [][/\ Cores' = Cores
       /\ Memory' = Memory
       /\ (\E dev \in CdSet : AddCDRom(dev)) => ChangedFields \subseteq {"cd"}
       /\ (\E d \in DriveSet : AddDrive(d)) => ChangedFields = {"drives"}
       /\ (\E img \in ImageSet : AddDriveImage(img))
             => ChangedFields = {"drives"}
       /\ (\E netdev \in NetDevSet : AddNetworkDevice(netdev))
             => ChangedFields = {"ifaces"}
       /\ (\E addr \in VncAddrSet, port \in VncPortSet : AddVNC(addr, port))
             => ChangedFields \subseteq {"vnc"}
       /\ (\E dev \in MonitorSet : AddMonitorUnix(dev))
             => ChangedFields \subseteq {"monitor"}
       /\ fpc' # "idle" => ChangedFields = {}
      ]_vars

C17_Witness ==
    /\ fpc = "done" /\ Cores = 12 /\ Memory = 1024
    /\ cd # "" /\ vnc # "" /\ monitor # ""
    /\ Len(drives) = 2 /\ Len(ifaces) = 2

(* C18: when the child exits with status 0, at any time, the goroutine
   sends nothing on errc, and Start returns the handle and a nil error
   although the child is already gone. *)
C18_CleanExitSilent ==
    (Spawned /\ procState = "exited" /\ exitCode = 0) =>
        /\ sends = 0 /\ delivered = 0 /\ wpc \in {"wait", "done"}
        /\ sendVal = Nil /\ vmerr = Nil
        /\ fpc = "done" => (retProc = Proc /\ retErr = Nil)

C18_Witness ==
    /\ Returned /\ procState = "exited" /\ exitCode = 0 /\ exitAt = "sleep"
    /\ wpc = "done" /\ retProc = Proc /\ retErr = Nil /\ sends = 0

(* C19: when Start has returned an error, no child of that call is
   running: none was created, or it has exited and cmd.Wait() has
   returned for it; a running child always has its handle returned. *)
C19_ErrorMeansNoRunningChild ==
    /\ (fpc = "done" /\ retErr # Nil) =>
          \/ procState = "none" /\ wpc = "none"
          \/ procState = "exited" /\ wpc = "done" /\ delivered = 1
    /\ (fpc = "done" /\ procState = "running") => retProc = Proc

C19_Witness ==
    /\ fpc = "done" /\ retErr # Nil /\ retProc = Nil
    /\ procState = "exited" /\ wpc = "done" /\ exitAt = "select"

====
